---- MODULE Spec2Model ----
(***************************************************************************)
(* Model of the conversion-and-analysis engine of the responsive CSS       *)
(* converter (utils/converter.ts): convertCSSValue, detectRootFontSize and *)
(* convertCSS.  CSS text is modelled as TLA+ strings, JavaScript numbers   *)
(* as exact rationals [n |-> numerator, d |-> denominator] (IEEE-754       *)
(* rounding error is not modelled), regular expressions by operators that  *)
(* compute the match the backtracking matcher finds.                       *)
(***************************************************************************)
EXTENDS Integers, Sequences, FiniteSets, TLC

(***************************************************************************)
(* Bounds of the model.                                                    *)
(***************************************************************************)
MaxPrecision == 2
MaxLines == 2
MaxCalls == 3
MaxLinks == 2

(***************************************************************************)
(* Characters and strings.                                                 *)
(***************************************************************************)
Ch(s, i) == SubSeq(s, i, i)

LowerAlpha == "abcdefghijklmnopqrstuvwxyz"
UpperAlpha == "ABCDEFGHIJKLMNOPQRSTUVWXYZ"
DigitChars == "0123456789"

LowerSet == {Ch(LowerAlpha, i) : i \in 1..26}
UpperSet == {Ch(UpperAlpha, i) : i \in 1..26}
DigitSet == {Ch(DigitChars, i) : i \in 1..10}

IsDigit(c) == c \in DigitSet
IsSpace(c) == c \in {" ", "\t", "\n"}
IsNameChar(c) == c \in LowerSet \/ c \in UpperSet \/ c = "-"

DigitVal(c) == CHOOSE v \in 0..9 : Ch(DigitChars, v + 1) = c
DigitStr(v) == Ch(DigitChars, v + 1)

LowerCh(c) == IF c \in UpperSet
              THEN Ch(LowerAlpha, CHOOSE i \in 1..26 : Ch(UpperAlpha, i) = c)
              ELSE c

RECURSIVE ToLowerCase(_)
ToLowerCase(s) == IF Len(s) = 0 THEN ""
                  ELSE LowerCh(Ch(s, 1)) \o ToLowerCase(Tail(s))

StartsWithAt(s, i, t) == /\ i + Len(t) - 1 <= Len(s)
                         /\ SubSeq(s, i, i + Len(t) - 1) = t

Includes(s, t) == \E i \in 1..(Len(s) + 1) : StartsWithAt(s, i, t)

EndsWith(s, t) == /\ Len(t) <= Len(s)
                  /\ SubSeq(s, Len(s) - Len(t) + 1, Len(s)) = t

RECURSIVE Trim(_)
Trim(s) == IF Len(s) = 0 THEN ""
           ELSE IF IsSpace(Ch(s, 1)) THEN Trim(Tail(s))
           ELSE IF IsSpace(Ch(s, Len(s))) THEN Trim(SubSeq(s, 1, Len(s) - 1))
           ELSE s

\* Length of the longest run of digits of s that starts at position i.
RECURSIVE DigitRun(_, _)
DigitRun(s, i) == IF i <= Len(s) /\ IsDigit(Ch(s, i)) THEN 1 + DigitRun(s, i + 1) ELSE 0

RECURSIVE SpaceRun(_, _)
SpaceRun(s, i) == IF i <= Len(s) /\ IsSpace(Ch(s, i)) THEN 1 + SpaceRun(s, i + 1) ELSE 0

RECURSIVE NameRun(_, _)
NameRun(s, i) == IF i <= Len(s) /\ IsNameChar(Ch(s, i)) THEN 1 + NameRun(s, i + 1) ELSE 0

\* css.split('\n')
RECURSIVE Split(_)
Split(s) ==
  IF \E i \in 1..Len(s) : Ch(s, i) = "\n"
  THEN LET k == CHOOSE i \in 1..Len(s) :
                  /\ Ch(s, i) = "\n"
                  /\ \A j \in 1..(i - 1) : Ch(s, j) # "\n"
       IN <<SubSeq(s, 1, k - 1)>> \o Split(SubSeq(s, k + 1, Len(s)))
  ELSE <<s>>

\* lines.join('\n')
RECURSIVE Join(_)
Join(ls) == IF Len(ls) = 0 THEN ""
            ELSE IF Len(ls) = 1 THEN ls[1]
            ELSE ls[1] \o "\n" \o Join(Tail(ls))

(***************************************************************************)
(* Numbers.                                                                *)
(***************************************************************************)
\* NaN is the record 0/0; every other number has a positive denominator.
NaN == [n |-> 0, d |-> 0]
IsNaN(x) == x.d = 0

RECURSIVE Pow10(_)
Pow10(k) == IF k = 0 THEN 1 ELSE 10 * Pow10(k - 1)

RECURSIVE DigitsToNat(_)
DigitsToNat(s) == IF Len(s) = 0 THEN 0
                  ELSE 10 * DigitsToNat(SubSeq(s, 1, Len(s) - 1)) + DigitVal(Ch(s, Len(s)))

RECURSIVE NatToString(_)
NatToString(k) == IF k < 10 THEN DigitStr(k)
                  ELSE NatToString(k \div 10) \o DigitStr(k % 10)

Abs(k) == IF k < 0 THEN -k ELSE k

RECURSIVE GCD(_, _)
GCD(a, b) == IF b = 0 THEN a ELSE GCD(b, a % b)

\* Fractions are kept in lowest terms.
Reduce(num, den) == LET g == GCD(Abs(num), den)
                    IN [n |-> num \div g, d |-> den \div g]

Negate(x) == [n |-> -x.n, d |-> x.d]

\* Number of digits of a fraction that starts with "." at position p.
FractionRun(s, p) == IF p <= Len(s) /\ Ch(s, p) = "." THEN DigitRun(s, p + 1) ELSE 0

\* The number with d1 digits before and d2 digits after the point.
ParseParts(s, d1, d2) ==
  IF d1 + d2 = 0 THEN NaN
  ELSE Reduce(DigitsToNat(SubSeq(s, 1, d1) \o SubSeq(s, d1 + 2, d1 + 1 + d2)), Pow10(d2))

ParseUnsigned(s) == ParseParts(s, DigitRun(s, 1), FractionRun(s, DigitRun(s, 1) + 1))

\* parseFloat: the longest prefix [-]digits[.digits] of the trimmed text, NaN
\* when that prefix holds no digit.
ParseSigned(s) == IF Len(s) > 0 /\ Ch(s, 1) = "-"
                  THEN Negate(ParseUnsigned(Tail(s))) ELSE ParseUnsigned(s)

ParseFloat(str) == ParseSigned(Trim(str))

Rat(k) == [n |-> k, d |-> 1]
RatDiv(x, y) == Reduce(x.n * y.d, x.d * y.n)
RatMul(x, y) == Reduce(x.n * y.n, x.d * y.d)
RatEq(x, y) == x.n * y.d = y.n * x.d
RatLess(x, y) == x.n * y.d < y.n * x.d

\* Number.prototype.toFixed: RangeError outside 0..100.
ToFixedThrows(precision) == precision < 0 \/ precision > 100

\* The integer N for which N / 10^precision is closest to |x|, the larger one
\* on a tie.
RoundScaled(num, den, precision) ==
  (2 * num * Pow10(precision) + den) \div (2 * den)

\* The sign is handled apart, as toFixed does.
ToFixedScaled(x, precision) ==
  IF x.n < 0 THEN -RoundScaled(-x.n, x.d, precision)
  ELSE RoundScaled(x.n, x.d, precision)

RECURSIVE StripTrailingZeros(_)
StripTrailingZeros(s) == IF Len(s) > 0 /\ Ch(s, Len(s)) = "0"
                         THEN StripTrailingZeros(SubSeq(s, 1, Len(s) - 1))
                         ELSE s

RECURSIVE PadZeros(_, _)
PadZeros(s, w) == IF Len(s) >= w THEN s ELSE PadZeros("0" \o s, w)

FixedDigits(mag, precision) ==
  NatToString(mag \div Pow10(precision)) \o
  (IF precision = 0 THEN ""
   ELSE "." \o PadZeros(NatToString(mag % Pow10(precision)), precision))

\* x.toFixed(precision): exactly `precision` digits after the point.
ToFixedString(scaled, precision) ==
  IF scaled < 0 THEN "-" \o FixedDigits(-scaled, precision)
  ELSE FixedDigits(scaled, precision)

ShortDecimal(int, frac) == int \o (IF frac = "" THEN "" ELSE "." \o frac)

ShortUnsigned(body) ==
  ShortDecimal(SubSeq(body, 1, DigitRun(body, 1)),
               StripTrailingZeros(SubSeq(body, DigitRun(body, 1) + 2, Len(body))))

\* -0 prints as 0.
ShortNegative(t) == IF t = "0" THEN t ELSE "-" \o t

\* `${Number(text)}`: the text is parsed back to a number and the number is
\* printed in its shortest form, without trailing zeros or a bare point.
NumberToString(text) ==
  IF Ch(text, 1) = "-" THEN ShortNegative(ShortUnsigned(Tail(text)))
  ELSE ShortUnsigned(text)

(***************************************************************************)
(* convertCSSValue                                                         *)
(***************************************************************************)
RatioUnits == {"rem", "em"}
PercentUnits == {"%", "vw", "vh"}
TargetUnits == RatioUnits \cup PercentUnits

\* A converter that leaves out the factor 100 of the percentage units.
ConvertedNumberPlainRatio(pixelValue, settings) ==
  RatDiv(pixelValue, settings.basePixelSize)

\* The number handed to toFixed (the switch on targetUnit).
ConvertedNumber(pixelValue, settings) ==
  IF settings.targetUnit \in RatioUnits
  THEN RatDiv(pixelValue, settings.basePixelSize)
  ELSE RatMul(RatDiv(pixelValue, settings.basePixelSize), Rat(100))

FormattedValue(convertedValue, precision) ==
  NumberToString(ToFixedString(ToFixedScaled(convertedValue, precision), precision))

ConvertCSSValueThrows(value, settings) ==
  /\ ~IsNaN(ParseFloat(value))
  /\ settings.targetUnit \in TargetUnits
  /\ ToFixedThrows(settings.precision)

ConvertNumber(pixelValue, value, settings) ==
  IF IsNaN(pixelValue) THEN value
  ELSE IF settings.targetUnit \notin TargetUnits THEN value
  ELSE FormattedValue(ConvertedNumber(pixelValue, settings), settings.precision)
       \o settings.targetUnit

ConvertCSSValue(value, settings) == ConvertNumber(ParseFloat(value), value, settings)

(***************************************************************************)
(* detectRootFontSize                                                      *)
(***************************************************************************)
RootSelectors == {"html", ":root", "body"}
FontSizeUnits == {"px", "rem", "em"}
BrowserDefaultFontSize == 16

\* Position of the first "}" at or after position i, 0 when there is none.
RECURSIVE FirstClose(_, _)
FirstClose(s, i) == IF i > Len(s) THEN 0
                    ELSE IF Ch(s, i) = "}" THEN i
                    ELSE FirstClose(s, i + 1)

NoRootMatch == [ok |-> FALSE, num |-> 0, numEnd |-> 0, unitLen |-> 0]

\* (px|rem|em) tried at position u: the length of the unit, 0 for none.
FontSizeUnitAt(low, u) ==
  IF StartsWithAt(low, u, "px") THEN 2
  ELSE IF StartsWithAt(low, u, "rem") THEN 3
  ELSE IF StartsWithAt(low, u, "em") THEN 2
  ELSE 0

\* The position after the fraction (?:\.\d+) that starts at position p, 0 when
\* there is no fraction.
FractionEnd(low, p) ==
  IF FractionRun(low, p) >= 1 THEN p + 1 + FractionRun(low, p) ELSE 0

\* (\d+(?:\.\d+)?)(px|rem|em) for a number at v with d1 integer digits: the
\* unit follows the fraction, or the integer digits when there is no fraction.
FontSizeNumber(low, v, d1, fracEnd) ==
  IF d1 = 0 THEN NoRootMatch
  ELSE IF fracEnd # 0 /\ FontSizeUnitAt(low, fracEnd) # 0
       THEN [ok |-> TRUE, num |-> v, numEnd |-> fracEnd - 1,
             unitLen |-> FontSizeUnitAt(low, fracEnd)]
  ELSE IF FontSizeUnitAt(low, v + d1) # 0
       THEN [ok |-> TRUE, num |-> v, numEnd |-> v + d1 - 1,
             unitLen |-> FontSizeUnitAt(low, v + d1)]
  ELSE NoRootMatch

FontSizeValue(low, v) ==
  FontSizeNumber(low, v, DigitRun(low, v), FractionEnd(low, v + DigitRun(low, v)))

FontSizeColon(low, c) ==
  IF c <= Len(low) /\ Ch(low, c) = ":"
  THEN FontSizeValue(low, c + 1 + SpaceRun(low, c + 1))
  ELSE NoRootMatch

\* font-size\s*:\s*(\d+(?:\.\d+)?)(px|rem|em) tried at position f of the
\* lower-cased text: the positions of the number and of the unit, or none.
FontSizeAt(low, f) ==
  IF StartsWithAt(low, f, "font-size")
  THEN FontSizeColon(low, f + 9 + SpaceRun(low, f + 9))
  ELSE NoRootMatch

\* [^}]* is greedy: the last font-size declaration between from and to.
RECURSIVE LastFontSize(_, _, _)
LastFontSize(low, from, to) ==
  IF to < from THEN NoRootMatch
  ELSE IF FontSizeAt(low, to).ok THEN FontSizeAt(low, to)
  ELSE LastFontSize(low, from, to - 1)

\* "{" at position b, then a font-size declaration before the first "}".
RootBlock(low, b) ==
  IF b <= Len(low) /\ Ch(low, b) = "{" /\ FirstClose(low, b + 1) # 0
  THEN LastFontSize(low, b + 1, FirstClose(low, b + 1) - 1)
  ELSE NoRootMatch

\* (?:html|:root|body) tried at position s: the length of the selector.
RootSelectorAt(low, s) ==
  IF StartsWithAt(low, s, "html") THEN 4
  ELSE IF StartsWithAt(low, s, ":root") THEN 5
  ELSE IF StartsWithAt(low, s, "body") THEN 4
  ELSE 0

\* The match of rootFontSizeRegex that starts at position s, if any.
RootMatchAt(low, s) ==
  IF RootSelectorAt(low, s) = 0 THEN NoRootMatch
  ELSE RootBlock(low, s + RootSelectorAt(low, s)
                      + SpaceRun(low, s + RootSelectorAt(low, s)))

\* css.match: the leftmost match.
RECURSIVE FirstRootMatch(_, _)
FirstRootMatch(low, s) ==
  IF s > Len(low) THEN NoRootMatch
  ELSE IF RootMatchAt(low, s).ok THEN RootMatchAt(low, s)
  ELSE FirstRootMatch(low, s + 1)

\* Lines 19-24: the unit is compared as it is written in the text.
RootSize(numValue, unit) ==
  IF unit = "rem" \/ unit = "em"
  THEN RatMul(numValue, Rat(BrowserDefaultFontSize))
  ELSE numValue

\* null is [found |-> FALSE]; otherwise the size in pixels.
DetectedSize(css, m) ==
  IF ~m.ok THEN [found |-> FALSE, size |-> NaN]
  ELSE [found |-> TRUE,
        size |-> RootSize(ParseFloat(SubSeq(css, m.num, m.numEnd)),
                          SubSeq(css, m.numEnd + 1, m.numEnd + m.unitLen))]

DetectRootFontSize(css) == DetectedSize(css, FirstRootMatch(ToLowerCase(css), 1))

\* JavaScript truthiness of `number | null`.
Truthy(detected) == detected.found /\ detected.size.n # 0

(***************************************************************************)
(* CSS_PX_REGEX = /([a-zA-Z-]+\s*:\s*[^;]*?)(\d*\.?\d+)px/g                *)
(***************************************************************************)
\* A value pattern that also accepts a `px` with no digit before it.
ValueEndNoDigit(line, q) ==
  IF FractionRun(line, q + DigitRun(line, q)) >= 1
     /\ StartsWithAt(line, q + DigitRun(line, q) + 1
                           + FractionRun(line, q + DigitRun(line, q)), "px")
  THEN q + DigitRun(line, q) + 1 + FractionRun(line, q + DigitRun(line, q))
  ELSE IF StartsWithAt(line, q + DigitRun(line, q), "px")
       THEN q + DigitRun(line, q)
  ELSE 0

\* (\d*\.?\d+)px tried at position q: the position of the "p", 0 when the
\* value does not match there.
ValueEnd(line, q) ==
  IF FractionRun(line, q + DigitRun(line, q)) >= 1
     /\ StartsWithAt(line, q + DigitRun(line, q) + 1
                           + FractionRun(line, q + DigitRun(line, q)), "px")
  THEN q + DigitRun(line, q) + 1 + FractionRun(line, q + DigitRun(line, q))
  ELSE IF DigitRun(line, q) >= 1 /\ StartsWithAt(line, q + DigitRun(line, q), "px")
       THEN q + DigitRun(line, q)
  ELSE 0

NoMatch == [ok |-> FALSE, start |-> 0, value |-> 0, px |-> 0]

\* The first position q at or after a where a value followed by px starts,
\* with no ";" before it; 0 when there is none ([^;]*? is lazy).
RECURSIVE FirstValue(_, _)
FirstValue(line, a) ==
  IF a > Len(line) THEN 0
  ELSE IF ValueEnd(line, a) # 0 THEN a
  ELSE IF Ch(line, a) = ";" THEN 0
  ELSE FirstValue(line, a + 1)

MatchValue(s, q, px) ==
  IF q = 0 THEN NoMatch ELSE [ok |-> TRUE, start |-> s, value |-> q, px |-> px]

\* \s*:\s*[^;]*? from position c, where the colon has to be.
MatchColon(line, s, c) ==
  IF c <= Len(line) /\ Ch(line, c) = ":"
  THEN MatchValue(s, FirstValue(line, c + 1 + SpaceRun(line, c + 1)),
                  ValueEnd(line, FirstValue(line, c + 1 + SpaceRun(line, c + 1))))
  ELSE NoMatch

\* The match that starts at position s: the property group runs from s up to
\* the value.
MatchAt(line, s) ==
  IF NameRun(line, s) = 0 THEN NoMatch
  ELSE MatchColon(line, s, s + NameRun(line, s) + SpaceRun(line, s + NameRun(line, s)))

\* The leftmost match at or after position from.
RECURSIVE NextMatch(_, _)
NextMatch(line, from) ==
  IF from > Len(line) THEN NoMatch
  ELSE IF MatchAt(line, from).ok THEN MatchAt(line, from)
  ELSE NextMatch(line, from + 1)

RECURSIVE AllMatches(_, _)
MatchesFrom(line, m) == IF m.ok THEN <<m>> \o AllMatches(line, m.px + 2) ELSE <<>>

\* Every match of the global pattern in the line, left to right, each search
\* going on after the `px` of the match before.
AllMatches(line, from) == MatchesFrom(line, NextMatch(line, from))

\* property.trim().toLowerCase().replace(/\s*:\s*$/, '')
RECURSIVE TrimEnd(_)
TrimEnd(s) == IF Len(s) > 0 /\ IsSpace(Ch(s, Len(s)))
              THEN TrimEnd(SubSeq(s, 1, Len(s) - 1)) ELSE s

DropColon(t) == IF EndsWith(t, ":") THEN TrimEnd(SubSeq(t, 1, Len(t) - 1)) ELSE t

CleanProperty(property) == DropColon(ToLowerCase(Trim(property)))

(***************************************************************************)
(* Lookup tables                                                           *)
(***************************************************************************)
LayoutProperties == {"width", "height", "max-width", "min-width", "max-height",
                     "min-height", "top", "right", "bottom", "left"}
TypographyProperties == {"font-size", "line-height", "letter-spacing", "word-spacing"}
SpacingProperties == {"margin", "padding", "gap", "column-gap", "row-gap",
                      "margin-top", "margin-right", "margin-bottom", "margin-left",
                      "padding-top", "padding-right", "padding-bottom", "padding-left"}

PROPERTY_CATEGORIES ==
  [p \in LayoutProperties \cup TypographyProperties \cup SpacingProperties |->
     IF p \in LayoutProperties THEN "layout"
     ELSE IF p \in TypographyProperties THEN "typography"
     ELSE "spacing"]

\* A list without font-size.
ResponsiveLayoutAndSpacing == LayoutProperties \cup SpacingProperties

RESPONSIVE_PROPERTIES ==
  {"width", "max-width", "min-width", "height", "max-height", "min-height",
   "left", "right", "top", "bottom", "margin", "margin-top", "margin-right",
   "margin-bottom", "margin-left", "padding", "padding-top", "padding-right",
   "padding-bottom", "padding-left", "gap", "row-gap", "column-gap", "font-size"}

MIN_ACCESSIBLE_SIZES ==
  [p \in {"font-size", "line-height", "height", "width", "padding", "padding-top",
          "padding-right", "padding-bottom", "padding-left", "margin", "margin-top",
          "margin-right", "margin-bottom", "margin-left", "gap"} |->
     IF p = "font-size" THEN 12
     ELSE IF p = "line-height" THEN 18
     ELSE IF p \in {"height", "width"} THEN 44
     ELSE 8]

\* 'line-height': 2.5, 'letter-spacing': 0.5
MAX_ACCESSIBLE_SIZES ==
  [p \in {"line-height", "letter-spacing"} |->
     IF p = "line-height" THEN [n |-> 5, d |-> 2] ELSE [n |-> 1, d |-> 2]]

INTERACTIVE_SELECTORS ==
  {"button", "a", "input", "select", "textarea", "[role=\"button\"]",
   "[role=\"link\"]", "[role=\"menuitem\"]", "[role=\"tab\"]"}

\* The tables are object literals: a key they do not own is looked up on
\* Object.prototype.  A cleaned property is lower case, and the only member
\* of Object.prototype with a lower-case name of letters is `constructor`.
ObjectPrototypeMembers == {"constructor"}
ObjectFunction == "function Object() { [native code] }"

Categories == {"layout", "typography", "spacing", "other"}

\* PROPERTY_CATEGORIES[cleanProperty] || 'other'
CategoryOf(cleanProperty) ==
  IF cleanProperty \in DOMAIN PROPERTY_CATEGORIES THEN PROPERTY_CATEGORIES[cleanProperty]
  ELSE IF cleanProperty \in ObjectPrototypeMembers THEN ObjectFunction
  ELSE "other"

\* categoryBreakdown[category]++ : a key the record lacks is created, and
\* undefined + 1 is NaN.
IncrementCategory(breakdown, category) ==
  IF category \in DOMAIN breakdown
  THEN [breakdown EXCEPT ![category] =
          IF IsNaN(breakdown[category]) THEN NaN ELSE Rat(breakdown[category].n + 1)]
  ELSE breakdown @@ (category :> NaN)

(***************************************************************************)
(* The replace callback of convertCSS                                      *)
(***************************************************************************)
LargeReason == "Large value may need manual review"
SmallReason == "Very small value may need manual review"
BorderReason == "Border widths are typically better kept in px or rem units"
ViewportReason(unit, cleanProperty) ==
  "Using " \o unit \o " units for " \o cleanProperty \o
  " might cause issues at different viewport sizes"
MinSizeReason(min) ==
  "Value is below minimum accessible size of " \o NatToString(min) \o "px"
LineHeightReason == "Line height is too large and may impact readability"
LetterSpacingReason == "Letter spacing is too extreme and may impact readability"
TouchTargetReason == "Interactive elements should be at least 44px for touch targets"
MinTouchTarget == 44
LargeValue == 1000
SmallValue == 2

NoReview == [needsReview |-> FALSE, reviewReason |-> "", count |-> 0]
\* A heuristic that records its reason without asking for review.
FlagReasonOnly(r, reason) ==
  [needsReview |-> r.needsReview, reviewReason |-> reason, count |-> r.count + 1]

Flag(r, reason) == [needsReview |-> TRUE, reviewReason |-> reason, count |-> r.count + 1]

\* Lines 243-252: very large or very small values.
SizeReview(cleanProperty, pixelValue) ==
  IF RatLess(Rat(LargeValue), pixelValue) THEN Flag(NoReview, LargeReason)
  ELSE IF RatLess(pixelValue, Rat(SmallValue)) /\ ~Includes(cleanProperty, "border")
       THEN Flag(NoReview, SmallReason)
  ELSE NoReview

\* Lines 254-259: border widths.
BorderReview(r, cleanProperty, targetUnit) ==
  IF Includes(cleanProperty, "border") /\ targetUnit # "rem"
  THEN Flag(r, BorderReason) ELSE r

\* Lines 261-270: viewport units.
ViewportReview(r, cleanProperty, targetUnit) ==
  IF /\ targetUnit \in {"vw", "vh"}
     /\ \/ Includes(cleanProperty, "font-size")
        \/ Includes(cleanProperty, "line-height")
        \/ Includes(cleanProperty, "border")
  THEN Flag(r, ViewportReason(targetUnit, cleanProperty)) ELSE r

\* Heuristics of which the border one is applied last.
ReviewFlagsBorderLast(cleanProperty, pixelValue, targetUnit) ==
  BorderReview(ViewportReview(SizeReview(cleanProperty, pixelValue),
                              cleanProperty, targetUnit),
               cleanProperty, targetUnit)

\* Lines 243-270: the three heuristics in source order.
ReviewFlags(cleanProperty, pixelValue, targetUnit) ==
  ViewportReview(BorderReview(SizeReview(cleanProperty, pixelValue),
                              cleanProperty, targetUnit),
                 cleanProperty, targetUnit)

NoIssue == [found |-> FALSE, reason |-> ""]
Issue(reason) == [found |-> TRUE, reason |-> reason]

\* A minimum that a value equal to it does not meet.
MinSizeCheckAtMost(cleanProperty, pixelValue) ==
  IF /\ cleanProperty \in DOMAIN MIN_ACCESSIBLE_SIZES
     /\ ~RatLess(Rat(MIN_ACCESSIBLE_SIZES[cleanProperty]), pixelValue)
  THEN Issue(MinSizeReason(MIN_ACCESSIBLE_SIZES[cleanProperty]))
  ELSE NoIssue

\* Lines 281-291: `prop in MIN_ACCESSIBLE_SIZES` also holds for inherited
\* members, whose value compares false with every number.
MinSizeCheck(cleanProperty, pixelValue) ==
  IF /\ cleanProperty \in DOMAIN MIN_ACCESSIBLE_SIZES
     /\ RatLess(pixelValue, Rat(MIN_ACCESSIBLE_SIZES[cleanProperty]))
  THEN Issue(MinSizeReason(MIN_ACCESSIBLE_SIZES[cleanProperty]))
  ELSE NoIssue

\* Lines 293-310.
MaxSizeCheck(a, cleanProperty, pixelValue, effectiveBaseSize) ==
  IF /\ cleanProperty = "line-height"
     /\ RatLess(RatMul(MAX_ACCESSIBLE_SIZES["line-height"], effectiveBaseSize), pixelValue)
  THEN Issue(LineHeightReason)
  ELSE IF /\ cleanProperty = "letter-spacing"
          /\ RatLess(MAX_ACCESSIBLE_SIZES["letter-spacing"],
                     [n |-> Abs(pixelValue.n), d |-> pixelValue.d])
       THEN Issue(LetterSpacingReason)
  ELSE a

\* Lines 312-326.
IsInteractiveElement(line) ==
  \E selector \in INTERACTIVE_SELECTORS : Includes(ToLowerCase(line), selector)

\* A touch-target check that leaves an issue found earlier in place.
TouchTargetCheckUnlessFound(a, line, cleanProperty, pixelValue) ==
  IF /\ ~a.found
     /\ IsInteractiveElement(line)
     /\ cleanProperty \in {"height", "width"}
     /\ RatLess(pixelValue, Rat(MinTouchTarget))
  THEN Issue(TouchTargetReason) ELSE a

TouchTargetCheck(a, line, cleanProperty, pixelValue) ==
  IF /\ IsInteractiveElement(line)
     /\ cleanProperty \in {"height", "width"}
     /\ RatLess(pixelValue, Rat(MinTouchTarget))
  THEN Issue(TouchTargetReason) ELSE a

\* Checks of which the first that matches keeps its issue.
AccessibilityIssueFirstWins(line, cleanProperty, pixelValue, effectiveBaseSize) ==
  IF MinSizeCheck(cleanProperty, pixelValue).found
  THEN MinSizeCheck(cleanProperty, pixelValue)
  ELSE IF MaxSizeCheck(NoIssue, cleanProperty, pixelValue, effectiveBaseSize).found
       THEN MaxSizeCheck(NoIssue, cleanProperty, pixelValue, effectiveBaseSize)
  ELSE TouchTargetCheck(NoIssue, line, cleanProperty, pixelValue)

\* Lines 279-326: each check that matches assigns accessibilityIssue.
AccessibilityIssue(line, cleanProperty, pixelValue, effectiveBaseSize) ==
  TouchTargetCheck(MaxSizeCheck(MinSizeCheck(cleanProperty, pixelValue),
                                cleanProperty, pixelValue, effectiveBaseSize),
                   line, cleanProperty, pixelValue)

\* An accessibility issue that leaves the review state alone.
FinalReviewUnflagged(r, a) == r

\* Lines 328-335: the review state after the accessibility issue is counted.
FinalReview(r, a) ==
  IF a.found /\ r.reviewReason = "" THEN Flag(r, a.reason) ELSE r

\* A record whose line number counts from 0.
DiffRecordZeroBased(lineNo, cleanProperty, value, convertedValue, a, r) ==
  [original |-> value \o "px",
   converted |-> convertedValue,
   property |-> cleanProperty,
   line |-> lineNo - 1,
   category |-> CategoryOf(cleanProperty),
   impactsResponsiveness |-> cleanProperty \in RESPONSIVE_PROPERTIES,
   impactsAccessibility |-> a.found,
   needsReview |-> r.needsReview,
   reviewReason |-> IF a.found THEN a.reason ELSE r.reviewReason]

\* Lines 339-349, for the issue a and the review state r.
DiffRecord(lineNo, cleanProperty, value, convertedValue, a, r) ==
  [original |-> value \o "px",
   converted |-> convertedValue,
   property |-> cleanProperty,
   line |-> lineNo,
   category |-> CategoryOf(cleanProperty),
   impactsResponsiveness |-> cleanProperty \in RESPONSIVE_PROPERTIES,
   impactsAccessibility |-> a.found,
   needsReview |-> r.needsReview,
   reviewReason |-> IF a.found THEN a.reason ELSE r.reviewReason]

\* A callback that returns the converted value without the property group.
ReplacementValueOnly(property, convertedValue) == convertedValue

\* Line 351: the text the match is replaced by.
Replacement(property, convertedValue) == property \o convertedValue

\* A catch block that keeps the lines converted before the fault.
CaughtCodePartial(cssText, finishedLines) == Join(finishedLines)

\* Lines 197, 225, 354: the assignment to convertedCode never happens when the
\* callback throws, so the caught pass leaves the input text in it.
CaughtCode(cssText, finishedLines) == cssText

\* A base that takes every detected size, 0 included.
EffectiveBaseSizeAnyDetected(detected, settings) ==
  IF detected.found THEN detected.size ELSE settings.basePixelSize

\* Lines 206 and 209.
EffectiveBaseSize(detected, settings) ==
  IF Truthy(detected) THEN detected.size ELSE settings.basePixelSize

\* A note for every detected size that differs, 0 included.
NoteNeededAnyDetected(detected, settings) ==
  detected.found /\ ~RatEq(detected.size, settings.basePixelSize)

NoteNeeded(detected, settings) ==
  Truthy(detected) /\ ~RatEq(detected.size, settings.basePixelSize)

\* `${number}` in a template string (exact for up to four decimal places).
NumberText(x) == FormattedValue(x, 4)

DetectionNote(detected, settings) ==
  "Note: Detected root font-size of " \o NumberText(detected.size) \o
  "px in CSS. Using this instead of " \o NumberText(settings.basePixelSize) \o "px."

ScanError == "Error converting CSS: toFixed() digits argument must be between 0 and 100"

(***************************************************************************)
(* Inputs                                                                  *)
(***************************************************************************)
MaxToFixedDigits == 100

BaseSizes == {10, 16}
\* "pt" stands for a target unit outside the five supported ones.
UnitInputs == TargetUnits \cup {"pt"}
PrecisionInputs == 0..MaxPrecision \cup {MaxToFixedDigits + 1}

SettingsInputs ==
  [basePixelSize : {Rat(b) : b \in BaseSizes},
   targetUnit : UnitInputs,
   precision : PrecisionInputs]

ValueInputs == {"16", "32", "8", "15", "20", "1200", "1", "0.5", "-16", "abc"}

\* Rules that may set the root font size.
HeaderInputs ==
  {":root { font-size: 20px; }",
   "html {\n  font-size: 1.25rem;\n}",
   "body { font-size: 0px; }",
   "HTML { FONT-SIZE: 2REM; }",
   "body { font-size: 16px; }",
   "tbody { font-size: 12px; }"}

\* Lines that follow such a rule.
HeadedLineInputs ==
  {"width: 100px;",
   ".header { width: 32px; padding: 16px; }",
   ".broken { width: px; height: invalid; }",
   "line-height: 45px;"}

\* Lines combined into texts of up to MaxLines lines.
LineInputs ==
  {".header { width: 32px; padding: 16px; }",
   ".element { width: 100%; height: 32px; }",
   "width: 1200px;",
   "color: red;"}

RECURSIVE SeqsUpTo(_, _)
SeqsUpTo(S, k) ==
  IF k = 0 THEN {<<>>}
  ELSE LET shorter == SeqsUpTo(S, k - 1)
       IN shorter \cup {Append(q, e) : q \in shorter, e \in S}

\* Texts scanned on their own.
SingleInputs ==
  {"padding: 16px 32px 8px 24px;",
   ".broken { width: px; height: invalid; }",
   "border-width: 1001px;",
   "constructor: 10px;",
   ".x { height: 30px; }",
   "<button style='height: 30px'>",
   "padding: 1px",
   "font-size: 20px;",
   ".a { width: calc(100% - 20px); margin: 0 auto 10.5px; }",
   "font-size: 1001px;",
   ".card { height: 30px; }",
   "letter-spacing: 0.5px; font-size: 12px; padding-top: 8px;",
   "letter-spacing: 0.6px; font-size: 11.5px; row-gap: 4px; line-height: 17px"}

\* Calls a caller makes more than once, in any order.
RepeatedCalls ==
  <<[css |-> "width: 1200px;",
     settings |-> [basePixelSize |-> Rat(16), targetUnit |-> "rem", precision |-> 2]],
    [css |-> ":root { font-size: 20px; }\n.header { width: 32px; padding: 16px; }",
     settings |-> [basePixelSize |-> Rat(16), targetUnit |-> "rem", precision |-> 2]],
    [css |-> "<button style='height: 30px'>",
     settings |-> [basePixelSize |-> Rat(10), targetUnit |-> "vw", precision |-> 1]],
    [css |-> "width: 1200px;",
     settings |-> [basePixelSize |-> Rat(16), targetUnit |-> "rem",
                   precision |-> MaxToFixedDigits + 1]]>>

\* The place of a call among the repeated ones, 0 for any other call.
KeyOf(fn, cssText, config) ==
  IF fn = "convertCSS" /\ \E k \in 1..Len(RepeatedCalls) :
                            RepeatedCalls[k] = [css |-> cssText, settings |-> config]
  THEN CHOOSE k \in 1..Len(RepeatedCalls) :
         RepeatedCalls[k] = [css |-> cssText, settings |-> config]
  ELSE 0

\* The results of first calls, with the result r of call k added when it is
\* the first of its configuration.
Recorded(first, k, r) ==
  IF k = 0 THEN first
  ELSE IF first[k].kind = "none" THEN [first EXCEPT ![k] = r]
  ELSE first

CssInputs ==
  {Join(ls) : ls \in SeqsUpTo(LineInputs, MaxLines) \ {<<>>}}
  \cup {Join(<<h, l>>) : h \in HeaderInputs, l \in HeadedLineInputs}
  \cup SingleInputs

(***************************************************************************)
(* State                                                                   *)
(***************************************************************************)
VARIABLES
  call,                \* the exported function that was called
  value,               \* argument of convertCSSValue
  css,                 \* argument of convertCSS
  settings,            \* argument of both
  pc,                  \* position in the call
  errors,
  convertedCode,
  diffs,
  totalConversions,
  accessibilityIssues,
  needsReviewCount,
  categoryBreakdown,
  effectiveBaseSize,
  lines,               \* css.split('\n')
  mapped,              \* the lines lines.map has finished
  currentLine,
  matches,             \* the matches of CSS_PX_REGEX in the line not yet replaced
  lastIndex,           \* 1-based position of the line text not yet copied
  replaced,            \* the part of the current line String.replace has built
  result,              \* the value returned to the caller
  history,             \* the calls that returned before this one (KeyOf each)
  firstResult,         \* what the first call of each repeated configuration returned
  request,             \* the request of the extract-css handler and what it meets
  hpc,                 \* position of the handler
  fetchState,          \* per link tag: the promise of its callback
  externalCSS,         \* per link tag: the value of its promise
  completionOrder,     \* the link tags in the order their fetches settled
  responses            \* the responses sent through res

vars == <<call, value, css, settings, pc, errors, convertedCode, diffs,
          totalConversions, accessibilityIssues, needsReviewCount,
          categoryBreakdown, effectiveBaseSize, lines, mapped, currentLine,
          matches, lastIndex, replaced, result, history, firstResult,
          request, hpc, fetchState, externalCSS, completionOrder, responses>>

server == <<request, hpc, fetchState, externalCSS, completionOrder, responses>>

locals == <<errors, convertedCode, diffs, totalConversions, accessibilityIssues,
            needsReviewCount, categoryBreakdown, effectiveBaseSize, lines,
            mapped, currentLine, matches, lastIndex, replaced>>

NoResult == [kind |-> "none"]

Init ==
  /\ call \in {"convertCSSValue", "convertCSS"}
  /\ settings \in SettingsInputs
  /\ value \in IF call = "convertCSSValue" THEN ValueInputs ELSE {""}
  /\ css \in IF call = "convertCSS" THEN CssInputs ELSE {""}
  /\ pc = "start"
  /\ errors = <<>>
  /\ convertedCode = ""
  /\ diffs = <<>>
  /\ totalConversions = 0
  /\ accessibilityIssues = 0
  /\ needsReviewCount = 0
  /\ categoryBreakdown = [c \in Categories |-> Rat(0)]
  /\ effectiveBaseSize = settings.basePixelSize
  /\ lines = <<>>
  /\ mapped = <<>>
  /\ currentLine = 0
  /\ matches = <<>>
  /\ lastIndex = 1
  /\ replaced = ""
  /\ result = NoResult
  /\ history = <<>>
  /\ firstResult = [k \in 1..Len(RepeatedCalls) |-> NoResult]
  /\ request = [kind |-> "none", page |-> "", links |-> <<>>, styles |-> <<>>]
  /\ hpc = "idle"
  /\ fetchState = <<>>
  /\ externalCSS = <<>>
  /\ completionOrder = <<>>
  /\ responses = <<>>

(***************************************************************************)
(* convertCSSValue called by itself                                        *)
(***************************************************************************)
ConvertValue ==
  /\ pc = "start" /\ call = "convertCSSValue"
  /\ ~ConvertCSSValueThrows(value, settings)
  /\ result' = [kind |-> "value", text |-> ConvertCSSValue(value, settings)]
  /\ pc' = "done"
  /\ UNCHANGED <<server, history, firstResult, call, value, css, settings, locals>>

\* toFixed raises a RangeError, which convertCSSValue does not catch.
ConvertValueThrows ==
  /\ pc = "start" /\ call = "convertCSSValue"
  /\ ConvertCSSValueThrows(value, settings)
  /\ result' = [kind |-> "exception"]
  /\ pc' = "done"
  /\ UNCHANGED <<server, history, firstResult, call, value, css, settings, locals>>

(***************************************************************************)
(* convertCSS                                                              *)
(***************************************************************************)
\* Lines 205-211, for the value detectRootFontSize returned.
UseDetected(detected) ==
  /\ effectiveBaseSize' = EffectiveBaseSize(detected, settings)
  /\ errors' = IF NoteNeeded(detected, settings)
               THEN <<DetectionNote(detected, settings)>> ELSE <<>>

\* A counter kept in the module, which an earlier call leaves as it was.
TotalConversionsKept(left) == left

\* Line 199: the counter is a local of the invocation.
TotalConversionsAtEntry(left) == 0

\* Lines 196-223: the locals, root font size detection, the note, the split.
Begin ==
  /\ pc = "start" /\ call = "convertCSS"
  /\ UseDetected(DetectRootFontSize(css))
  /\ convertedCode' = css
  /\ diffs' = <<>>
  /\ totalConversions' = TotalConversionsAtEntry(totalConversions)
  /\ accessibilityIssues' = 0
  /\ needsReviewCount' = 0
  /\ categoryBreakdown' = [c \in Categories |-> Rat(0)]
  /\ lines' = Split(css)
  /\ mapped' = <<>>
  /\ currentLine' = 0
  /\ pc' = "map"
  /\ UNCHANGED <<server, history, firstResult, call, value, css, settings, matches, lastIndex, replaced, result>>

\* Lines 225-227: lines.map enters its callback for the next line, and
\* String.replace collects the matches of the line.
StartLine ==
  /\ pc = "map" /\ Len(mapped) < Len(lines)
  /\ currentLine' = currentLine + 1
  /\ matches' = AllMatches(lines[currentLine + 1], 1)
  /\ lastIndex' = 1
  /\ replaced' = ""
  /\ pc' = "replace"
  /\ UNCHANGED <<server, history, firstResult, call, value, css, settings, errors, convertedCode, diffs,
                 totalConversions, accessibilityIssues, needsReviewCount,
                 categoryBreakdown, effectiveBaseSize, lines, mapped, result>>

\* The two groups of a match, and the settings handed to convertCSSValue.
MatchedProperty(line, m) == SubSeq(line, m.start, m.value - 1)
MatchedValue(line, m) == SubSeq(line, m.value, m.px - 1)
PassedSettings == [settings EXCEPT !.basePixelSize = effectiveBaseSize]

\* A conversion event that does not count the accessibility issue.
CountConversionIssueUncounted(diff, a, r) ==
  /\ totalConversions' = totalConversions + 1
  /\ categoryBreakdown' = IncrementCategory(categoryBreakdown, diff.category)
  /\ needsReviewCount' = needsReviewCount + r.count
  /\ accessibilityIssues' = accessibilityIssues
  /\ diffs' = Append(diffs, diff)

\* Lines 233-237, 247-268, 329-333 and 339: the counters and the diff list.
CountConversion(diff, a, r) ==
  /\ totalConversions' = totalConversions + 1
  /\ categoryBreakdown' = IncrementCategory(categoryBreakdown, diff.category)
  /\ needsReviewCount' = needsReviewCount + r.count
  /\ accessibilityIssues' = accessibilityIssues + (IF a.found THEN 1 ELSE 0)
  /\ diffs' = Append(diffs, diff)

\* Lines 328-349, for the issue a and the flags of lines 243-270.
RecordDiff(cleanProperty, val, convertedValue, a, flags) ==
  CountConversion(DiffRecord(currentLine, cleanProperty, val, convertedValue,
                             a, FinalReview(flags, a)),
                  a, FinalReview(flags, a))

\* Lines 232-350: a conversion event.
ConversionEvent(line, cleanProperty, pixelValue, val, convertedValue) ==
  RecordDiff(cleanProperty, val, convertedValue,
             AccessibilityIssue(line, cleanProperty, pixelValue, effectiveBaseSize),
             ReviewFlags(cleanProperty, pixelValue, settings.targetUnit))

\* Lines 228-351: the callback, for the value convertCSSValue returned.
Callback(line, from, property, val, convertedValue) ==
  /\ IF convertedValue # val
     THEN ConversionEvent(line, CleanProperty(property), ParseFloat(val), val,
                          convertedValue)
     ELSE UNCHANGED <<totalConversions, categoryBreakdown, needsReviewCount,
                      accessibilityIssues, diffs>>
  /\ replaced' = replaced \o SubSeq(line, lastIndex, from - 1)
                          \o Replacement(property, convertedValue)

\* Lines 227-352: String.replace runs the callback on the next match.
ReplaceMatch ==
  /\ pc = "replace" /\ matches # <<>>
  /\ ~ConvertCSSValueThrows(MatchedValue(lines[currentLine], Head(matches)),
                            PassedSettings)
  /\ Callback(lines[currentLine], Head(matches).start,
              MatchedProperty(lines[currentLine], Head(matches)),
              MatchedValue(lines[currentLine], Head(matches)),
              ConvertCSSValue(MatchedValue(lines[currentLine], Head(matches)),
                              PassedSettings))
  /\ lastIndex' = Head(matches).px + 2
  /\ matches' = Tail(matches)
  /\ UNCHANGED <<server, history, firstResult, call, value, css, settings, pc, errors, convertedCode,
                 effectiveBaseSize, lines, mapped, currentLine, result>>

\* Lines 230 and 354-356: toFixed raises inside the callback; the catch block
\* records the message.
ReplaceThrows ==
  /\ pc = "replace" /\ matches # <<>>
  /\ ConvertCSSValueThrows(MatchedValue(lines[currentLine], Head(matches)),
                           PassedSettings)
  /\ errors' = Append(errors, ScanError)
  /\ convertedCode' = CaughtCode(css, mapped)
  /\ pc' = "stats"
  /\ UNCHANGED <<server, history, firstResult, call, value, css, settings, diffs, totalConversions,
                 accessibilityIssues, needsReviewCount, categoryBreakdown,
                 effectiveBaseSize, lines, mapped, currentLine, matches,
                 lastIndex, replaced, result>>

\* String.replace has no match left: the rest of the line is copied and the
\* callback of lines.map returns.
EndLine ==
  /\ pc = "replace" /\ matches = <<>>
  /\ mapped' = Append(mapped, replaced \o SubSeq(lines[currentLine], lastIndex,
                                                 Len(lines[currentLine])))
  /\ pc' = "map"
  /\ UNCHANGED <<server, history, firstResult, call, value, css, settings, errors, convertedCode, diffs,
                 totalConversions, accessibilityIssues, needsReviewCount,
                 categoryBreakdown, effectiveBaseSize, lines, currentLine,
                 matches, lastIndex, replaced, result>>

\* Line 353: .join('\n') and the assignment to convertedCode.
JoinLines ==
  /\ pc = "map" /\ Len(mapped) = Len(lines)
  /\ convertedCode' = Join(mapped)
  /\ pc' = "stats"
  /\ UNCHANGED <<server, history, firstResult, call, value, css, settings, errors, diffs, totalConversions,
                 accessibilityIssues, needsReviewCount, categoryBreakdown,
                 effectiveBaseSize, lines, mapped, currentLine, matches,
                 lastIndex, replaced, result>>

DefaultViewportWidth == 1920
DefaultViewportHeight == 1080

\* Base values that report the size the arithmetic used.
BaseValuesEffective ==
  [fontSize |-> effectiveBaseSize,
   viewportWidth |-> DefaultViewportWidth,
   viewportHeight |-> DefaultViewportHeight]

\* Lines 361-365.
BaseValues ==
  [fontSize |-> settings.basePixelSize,
   viewportWidth |-> DefaultViewportWidth,
   viewportHeight |-> DefaultViewportHeight]

\* Lines 358-377.
Return ==
  /\ pc = "stats"
  /\ result' =
       [kind |-> "result",
        originalCode |-> css,
        convertedCode |-> convertedCode,
        errors |-> errors,
        stats |-> [totalConversions |-> totalConversions,
                   diffs |-> diffs,
                   baseValues |-> BaseValues,
                   categoryBreakdown |-> categoryBreakdown,
                   accessibilityIssues |-> accessibilityIssues,
                   responsiveBreakpointImpact |-> 0,
                   needsReviewCount |-> needsReviewCount]]
  /\ firstResult' = Recorded(firstResult, KeyOf(call, css, settings), result')
  /\ pc' = "done"
  /\ UNCHANGED <<server, history, call, value, css, settings, locals>>

\* The caller calls convertCSS again, with one of the configurations it
\* repeats.  Nothing of the module is touched between two calls.
CallAgain ==
  /\ pc = "done" /\ Len(history) + 1 < MaxCalls
  /\ \E k \in 1..Len(RepeatedCalls) :
        /\ css' = RepeatedCalls[k].css
        /\ settings' = RepeatedCalls[k].settings
  /\ call' = "convertCSS"
  /\ value' = ""
  /\ result' = NoResult
  /\ history' = Append(history, KeyOf(call, css, settings))
  /\ pc' = "start"
  /\ UNCHANGED <<server, firstResult, locals>>

Next ==
  \/ ConvertValue
  \/ ConvertValueThrows
  \/ Begin
  \/ StartLine
  \/ ReplaceMatch
  \/ ReplaceThrows
  \/ EndLine
  \/ JoinLines
  \/ Return
  \/ CallAgain

Spec == Init /\ [][Next]_vars

(***************************************************************************)
(* The extract-css handler                                                 *)
(***************************************************************************)
\* What a link tag of the page leads to: no href, an href new URL() rejects,
\* a fetch that throws, a response that is not OK, or a stylesheet text.
LinkInputs ==
  {[kind |-> "nohref", text |-> ""],
   [kind |-> "badhref", text |-> ""],
   [kind |-> "throws", text |-> ""],
   [kind |-> "notok", text |-> "Not Found"],
   [kind |-> "ok", text |-> ""],
   [kind |-> "ok", text |-> "a{}"],
   [kind |-> "ok", text |-> "b{}"]}

\* The textContent of the style tags of the page.
StyleInputs == {<<>>, <<"i{}">>, <<"i{}", "j{}">>, <<"  ">>}

RequestInputs ==
  [kind : {"options", "get", "nourl", "badurl"}, page : {""},
   links : {<<>>}, styles : {<<>>}]
  \cup [kind : {"post"}, page : {"notok", "throws"}, links : {<<>>}, styles : {<<>>}]
  \cup [kind : {"post"}, page : {"ok"},
        links : SeqsUpTo(LinkInputs, MaxLinks), styles : StyleInputs]

converter == <<call, value, css, settings, pc, result, history, firstResult, locals>>

ExtractInit ==
  /\ call = "extract-css"
  /\ value = "" /\ css = ""
  /\ settings = [basePixelSize |-> Rat(BrowserDefaultFontSize), targetUnit |-> "rem",
                 precision |-> 0]
  /\ pc = "start"
  /\ errors = <<>> /\ convertedCode = "" /\ diffs = <<>>
  /\ totalConversions = 0 /\ accessibilityIssues = 0 /\ needsReviewCount = 0
  /\ categoryBreakdown = [c \in Categories |-> Rat(0)]
  /\ effectiveBaseSize = settings.basePixelSize
  /\ lines = <<>> /\ mapped = <<>> /\ currentLine = 0
  /\ matches = <<>> /\ lastIndex = 1 /\ replaced = ""
  /\ result = NoResult
  /\ history = <<>>
  /\ firstResult = [k \in 1..Len(RepeatedCalls) |-> NoResult]
  /\ request \in RequestInputs
  /\ hpc = "received"
  /\ fetchState = <<>>
  /\ externalCSS = <<>>
  /\ completionOrder = <<>>
  /\ responses = <<>>

\* Lines 15-39: the method and the url of the request.
Validate ==
  /\ hpc = "received"
  /\ IF request.kind = "options"
     THEN /\ responses' = Append(responses, [status |-> 200, css |-> "", error |-> ""])
          /\ hpc' = "done"
     ELSE IF request.kind = "get"
     THEN /\ responses' = Append(responses, [status |-> 405, css |-> "",
                                             error |-> "Method not allowed"])
          /\ hpc' = "done"
     ELSE IF request.kind = "nourl"
     THEN /\ responses' = Append(responses, [status |-> 400, css |-> "",
                                             error |-> "URL is required"])
          /\ hpc' = "done"
     ELSE IF request.kind = "badurl"
     THEN /\ responses' = Append(responses, [status |-> 400, css |-> "",
                                             error |-> "Invalid URL format"])
          /\ hpc' = "done"
     ELSE /\ responses' = responses
          /\ hpc' = "page"
  /\ UNCHANGED <<converter, request, fetchState, externalCSS, completionOrder>>

\* Lines 41-71: the fetch of the page settles; an OK page is parsed.
FetchPage ==
  /\ hpc = "page"
  /\ IF request.page = "throws"
     THEN /\ responses' = Append(responses, [status |-> 500, css |-> "",
                                             error |-> "Failed to extract CSS"])
          /\ hpc' = "done"
     ELSE IF request.page = "notok"
     THEN /\ responses' = Append(responses, [status |-> 503, css |-> "",
                                             error |-> "Failed to fetch webpage"])
          /\ hpc' = "done"
     ELSE /\ responses' = responses
          /\ hpc' = "links"
  /\ UNCHANGED <<converter, request, fetchState, externalCSS, completionOrder>>

\* Lines 73-86: linkTags.map runs each callback up to its first await: a
\* link without href is resolved with '', an href new URL() rejects throws
\* outside the try block, every other link has its fetch under way.
StartFetches ==
  /\ hpc = "links"
  /\ fetchState' = [i \in 1..Len(request.links) |->
                      IF request.links[i].kind = "nohref" THEN "fulfilled"
                      ELSE IF request.links[i].kind = "badhref" THEN "rejected"
                      ELSE "pending"]
  /\ externalCSS' = [i \in 1..Len(request.links) |-> ""]
  /\ hpc' = "await"
  /\ UNCHANGED <<converter, request, completionOrder, responses>>

\* Promise.all that collects the values in the order the promises settle.
SettledInCompletionOrder(results, i, k, text) == [results EXCEPT ![k] = text]

\* Promise.all keeps the value of promise i at index i; k is its place in
\* the order of completion.
Settled(results, i, k, text) == [results EXCEPT ![i] = text]

\* Lines 86-97: what the callback returns when its fetch has settled.
LinkText(link) == IF link.kind = "ok" THEN link.text ELSE ""

\* The fetch of some link settles, in any order, also after the response.
FetchSettles ==
  /\ hpc \in {"await", "done"}
  /\ \E i \in 1..Len(fetchState) :
        /\ fetchState[i] = "pending"
        /\ fetchState' = [fetchState EXCEPT ![i] = "fulfilled"]
        /\ externalCSS' = Settled(externalCSS, i, Len(completionOrder) + 1,
                                  LinkText(request.links[i]))
        /\ completionOrder' = Append(completionOrder, i)
  /\ UNCHANGED <<converter, request, hpc, responses>>

\* .filter(Boolean)
NonEmpty(texts) == SelectSeq(texts, LAMBDA t : t # "")

\* .join('\n\n')
RECURSIVE JoinBlocks(_)
JoinBlocks(texts) ==
  IF Len(texts) = 0 THEN ""
  ELSE IF Len(texts) = 1 THEN texts[1]
  ELSE texts[1] \o "\n\n" \o JoinBlocks(Tail(texts))

\* Lines 99-110: every promise is fulfilled; the texts are combined.
AllSettled ==
  /\ hpc = "await"
  /\ \A i \in 1..Len(fetchState) : fetchState[i] = "fulfilled"
  /\ responses' =
       Append(responses,
              IF Trim(JoinBlocks(NonEmpty(Append(externalCSS, Join(request.styles))))) = ""
              THEN [status |-> 404, css |-> "",
                    error |-> "No CSS content found on the page"]
              ELSE [status |-> 200,
                    css |-> JoinBlocks(NonEmpty(Append(externalCSS, Join(request.styles)))),
                    error |-> ""])
  /\ hpc' = "done"
  /\ UNCHANGED <<converter, request, fetchState, externalCSS, completionOrder>>

\* Lines 111-116: a rejected promise makes Promise.all reject.
Rejected ==
  /\ hpc = "await"
  /\ \E i \in 1..Len(fetchState) : fetchState[i] = "rejected"
  /\ responses' = Append(responses, [status |-> 500, css |-> "",
                                     error |-> "Failed to extract CSS"])
  /\ hpc' = "done"
  /\ UNCHANGED <<converter, request, fetchState, externalCSS, completionOrder>>

ExtractNext ==
  \/ Validate
  \/ FetchPage
  \/ StartFetches
  \/ FetchSettles
  \/ AllSettled
  \/ Rejected

ExtractSpec == ExtractInit /\ [][ExtractNext]_vars

(***************************************************************************)
(* Properties                                                              *)
(***************************************************************************)
Returned == pc = "done" /\ call = "convertCSS"
ValueReturned == pc = "done" /\ call = "convertCSSValue" /\ result.kind = "value"

SupportedUnit == settings.targetUnit \in TargetUnits
PrecisionInRange == settings.precision \in 0..MaxToFixedDigits

\* A digit directly followed by px.
HasPixelToken(s) ==
  \E i \in 1..Len(s) : IsDigit(Ch(s, i)) /\ StartsWithAt(s, i + 1, "px")

\* The pass meets a value to convert while the precision makes toFixed fail.
ScanFaults ==
  /\ SupportedUnit /\ ~PrecisionInRange
  /\ \E k \in 1..Len(Split(css)) : NextMatch(Split(css)[k], 1).ok

\* The text of a converted value without its unit.
NumberPart(text, unit) == SubSeq(text, 1, Len(text) - Len(unit))

IsNumberText(t) ==
  /\ Len(t) > 0
  /\ \A i \in 1..Len(t) : IsDigit(Ch(t, i)) \/ Ch(t, i) \in {".", "-"}

\* Number of characters after the decimal point, 0 without a point.
FractionDigits(t) ==
  IF \E i \in 1..Len(t) : Ch(t, i) = "."
  THEN Len(t) - (CHOOSE i \in 1..Len(t) : Ch(t, i) = ".")
  ELSE 0

PixelLiteral == ~IsNaN(ParseFloat(value))

\* C1: for a valid configuration and a pixel literal, the text convertCSSValue
\* returns is a number with exactly `precision` digits after the decimal
\* point, followed by exactly the target unit.
C1_ExactPrecision ==
  (ValueReturned /\ SupportedUnit /\ PixelLiteral) =>
     /\ EndsWith(result.text, settings.targetUnit)
     /\ IsNumberText(NumberPart(result.text, settings.targetUnit))
     /\ FractionDigits(NumberPart(result.text, settings.targetUnit)) = settings.precision

\* C2: the number in the returned text is v / b for rem and em and
\* (v / b) * 100 for %, vw and vh, up to rounding at the given precision, and
\* the target unit follows it without a space.
C2_RatioOrPercent ==
  (ValueReturned /\ SupportedUnit /\ PixelLiteral) =>
     LET unit == settings.targetUnit
         shown == ParseFloat(NumberPart(result.text, unit))
         v == ParseFloat(value)
         b == settings.basePixelSize
         factor == IF unit \in {"rem", "em"} THEN 1 ELSE 100
         en == v.n * b.d * factor
         ed == v.d * b.n
     IN /\ EndsWith(result.text, unit)
        /\ IsNumberText(NumberPart(result.text, unit))
        /\ 2 * Pow10(settings.precision) * Abs(shown.n * ed - en * shown.d)
             <= shown.d * ed

C2_Witness ==
  /\ ValueReturned /\ value = "16" /\ settings.targetUnit = "%"
  /\ settings.basePixelSize = Rat(16) /\ result.text = "100%"

SingleDeclaration(s) ==
  /\ Cardinality({i \in 1..Len(s) : Ch(s, i) = ":"}) = 1
  /\ \A i \in 1..Len(s) : Ch(s, i) \notin {"{", "\n"}

\* C3: after a pass over a single declaration that holds several pixel
\* values, no <number>px token is left in convertedCode.
C3_EveryValueConverted ==
  (Returned /\ SupportedUnit /\ PrecisionInRange /\ SingleDeclaration(css)) =>
     ~HasPixelToken(result.convertedCode)

\* The line with the original text of each diff, taken left to right,
\* replaced by its converted text; "\n" when a diff does not occur in the line.
RECURSIVE Substituted(_, _, _)
Substituted(line, ds, from) ==
  IF ds = <<>> THEN SubSeq(line, from, Len(line))
  ELSE LET orig == Head(ds).original
           at == {i \in from..Len(line) : StartsWithAt(line, i, orig)}
           i == CHOOSE j \in at : \A k \in at : j <= k
       IN IF at = {} THEN "\n"
          ELSE SubSeq(line, from, i - 1) \o Head(ds).converted
               \o Substituted(line, Tail(ds), i + Len(orig))

DiffsOfLine(ds, k) == SelectSeq(ds, LAMBDA d : d.line = k)

\* C4: convertedCode has as many lines as the input, and each line is the
\* input line with nothing changed but the <number>px tokens of its diffs,
\* each replaced by the converted text.
C4_OnlyTokensChange ==
  (Returned /\ SupportedUnit) =>
     LET before == Split(css)
         after == Split(result.convertedCode)
     IN /\ Len(after) = Len(before)
        /\ \A k \in 1..Len(before) :
             after[k] = Substituted(before[k], DiffsOfLine(result.stats.diffs, k), 1)

C4_Witness ==
  /\ Returned /\ SupportedUnit
  /\ css = ".header { width: 32px; padding: 16px; }\n.element { width: 100%; height: 32px; }"
  /\ Len(result.stats.diffs) = 3
  /\ result.convertedCode # css

\* C5: a pass over CSS without any <number>px token returns the input text
\* unchanged, zero conversions and no diffs.
C5_NoPixelNoChange ==
  (Returned /\ ~HasPixelToken(css)) =>
     /\ result.convertedCode = css
     /\ result.stats.totalConversions = 0
     /\ result.stats.diffs = <<>>

C5_Witness ==
  /\ Returned /\ css = ".broken { width: px; height: invalid; }"
  /\ result.convertedCode = css

\* C6: categoryBreakdown has exactly the keys layout, typography, spacing and
\* other, and its values add up to totalConversions.
C6_CategoryTotals ==
  Returned =>
     LET cb == result.stats.categoryBreakdown
     IN /\ DOMAIN cb = Categories
        /\ cb["layout"].n + cb["typography"].n + cb["spacing"].n + cb["other"].n
             = result.stats.totalConversions

\* C7: convertCSS returns a result and raises nothing; when the pass faults,
\* errors ends with the message of the fault, convertedCode is the input and
\* the statistics are those of a pass that converted nothing.
C7_FaultIsContained ==
  /\ (pc = "done" /\ call = "convertCSS") => result.kind = "result"
  /\ (Returned /\ ScanFaults) =>
        /\ Len(result.errors) >= 1
        /\ result.errors[Len(result.errors)] = ScanError
        /\ result.convertedCode = css
        /\ result.stats.totalConversions = 0
        /\ result.stats.diffs = <<>>
        /\ result.stats.accessibilityIssues = 0
        /\ result.stats.needsReviewCount = 0
        /\ result.stats.categoryBreakdown = [c \in Categories |-> Rat(0)]

C7_Witness ==
  /\ Returned /\ ScanFaults
  /\ css = "color: red;\nwidth: 1200px;"
  /\ mapped = <<"color: red;">>
  /\ result.errors = <<ScanError>>

\* The size a root rule at the start of the text declares, in pixels: the
\* number itself for px, sixteen times the number for rem and em.
DeclaredRootSize ==
  (":root { font-size: 20px; }" :> Rat(20)) @@
  ("html {\n  font-size: 1.25rem;\n}" :> Rat(20)) @@
  ("HTML { FONT-SIZE: 2REM; }" :> Rat(32)) @@
  ("body { font-size: 16px; }" :> Rat(16))

\* C8: when the text starts with a root rule that declares a font size, every
\* value of the pass is converted with the declared size as divisor.
C8_DeclaredSizeIsDivisor ==
  (Returned /\ SupportedUnit /\ PrecisionInRange) =>
     \A h \in DOMAIN DeclaredRootSize :
        StartsWithAt(css, 1, h) =>
           \A i \in 1..Len(result.stats.diffs) :
              LET d == result.stats.diffs[i]
              IN d.converted =
                   ConvertCSSValue(SubSeq(d.original, 1, Len(d.original) - 2),
                                   [settings EXCEPT !.basePixelSize = DeclaredRootSize[h]])

IsNote(e) == StartsWithAt(e, 1, "Note: Detected root font-size of ")

\* Number of matches of CSS_PX_REGEX in the lines ls.
RECURSIVE MatchCount(_)
MatchCount(ls) ==
  IF ls = <<>> THEN 0 ELSE Len(AllMatches(Head(ls), 1)) + MatchCount(Tail(ls))

\* C9 as claimed: on a pass without a fault, errors holds one note when a
\* root font size is detected and differs from the configured size, and is
\* empty otherwise.
C9_NoteIffDetectedDiffers ==
  (Returned /\ ~ScanFaults) =>
     LET detected == DetectRootFontSize(css)
     IN IF detected.found /\ ~RatEq(detected.size, settings.basePixelSize)
        THEN Len(result.errors) = 1 /\ IsNote(result.errors[1])
        ELSE result.errors = <<>>

\* C9 amended: on a pass without a fault, errors holds one note when a root
\* font size other than 0 is detected and differs from the configured size,
\* and is empty otherwise (nothing detected, a detected size of 0, or the
\* configured size); with or without the note every match is converted.
C9_NoteIffNonZeroDetectedDiffers ==
  (Returned /\ ~ScanFaults) =>
     LET detected == DetectRootFontSize(css)
     IN /\ IF /\ detected.found /\ detected.size.n # 0
              /\ ~RatEq(detected.size, settings.basePixelSize)
           THEN Len(result.errors) = 1 /\ IsNote(result.errors[1])
           ELSE result.errors = <<>>
        /\ SupportedUnit => Len(result.stats.diffs) = MatchCount(Split(css))

C9_Witness ==
  /\ Returned /\ SupportedUnit /\ PrecisionInRange
  /\ css = ":root { font-size: 20px; }\n.header { width: 32px; padding: 16px; }"
  /\ Len(result.errors) = 1 /\ IsNote(result.errors[1])
  /\ Len(result.stats.diffs) = 3

ReviewedDiffs(ds) == {i \in 1..Len(ds) : ds[i].needsReview}

\* C10: needsReviewCount is the number of diffs whose needsReview is true.
C10_NeedsReviewCount ==
  Returned =>
     result.stats.needsReviewCount = Cardinality(ReviewedDiffs(result.stats.diffs))

AccessibilityDiffs(ds) == {i \in 1..Len(ds) : ds[i].impactsAccessibility}

\* C11: accessibilityIssues is the number of diffs whose impactsAccessibility
\* is true, for every pass, a faulted one included.
C11_AccessibilityIssuesCount ==
  Returned =>
     result.stats.accessibilityIssues =
        Cardinality(AccessibilityDiffs(result.stats.diffs))

C11_Witness ==
  /\ Returned /\ SupportedUnit /\ PrecisionInRange
  /\ css = ".header { width: 32px; padding: 16px; }"
  /\ Len(result.stats.diffs) = 2
  /\ result.stats.accessibilityIssues = 1

DefaultSettings ==
  [basePixelSize |-> Rat(16), targetUnit |-> "rem", precision |-> 2]

\* C12: every diff with impactsAccessibility also has needsReview and a
\* non-empty reviewReason; `.x { height: 30px; }` with base 16, rem and
\* precision 2 gives exactly one diff, which has both flags.
C12_AccessibilityNeedsReview ==
  Returned =>
     /\ \A i \in 1..Len(result.stats.diffs) :
          result.stats.diffs[i].impactsAccessibility =>
             /\ result.stats.diffs[i].needsReview
             /\ result.stats.diffs[i].reviewReason # ""
     /\ (css = ".x { height: 30px; }" /\ settings = DefaultSettings) =>
          /\ Len(result.stats.diffs) = 1
          /\ result.stats.diffs[1].impactsAccessibility
          /\ result.stats.diffs[1].needsReview

C12_Witness ==
  /\ Returned /\ css = ".x { height: 30px; }" /\ settings = DefaultSettings
  /\ ~IsInteractiveElement(css)
  /\ Len(result.stats.diffs) = 1
  /\ result.stats.diffs[1].impactsAccessibility
  /\ result.stats.diffs[1].reviewReason = MinSizeReason(MinTouchTarget)

\* The number in the original text of a diff.
OriginalValue(d) == ParseFloat(SubSeq(d.original, 1, Len(d.original) - 2))

\* C13: a height or width below 44px on a line with an interactive-element
\* indicator gives a diff with impactsAccessibility and the touch-target
\* reason, whatever review or accessibility heuristic matched as well.
C13_TouchTargetPrevails ==
  Returned =>
     \A i \in 1..Len(result.stats.diffs) :
        LET d == result.stats.diffs[i]
        IN (/\ IsInteractiveElement(Split(css)[d.line])
            /\ d.property \in {"height", "width"}
            /\ RatLess(OriginalValue(d), Rat(MinTouchTarget))) =>
              /\ d.impactsAccessibility
              /\ d.reviewReason = TouchTargetReason

C13_Witness ==
  /\ Returned /\ css = "<button style='height: 30px'>"
  /\ Len(result.stats.diffs) = 1
  /\ MinSizeCheck("height", OriginalValue(result.stats.diffs[1])).found
  /\ result.stats.diffs[1].impactsAccessibility
  /\ result.stats.diffs[1].reviewReason = TouchTargetReason

ZeroBreakdown == [c \in Categories |-> Rat(0)]

\* C14: a call returns what the first call with the same css and settings
\* returned, whatever calls came between, and every call starts its pass
\* with empty diffs and all counters at 0.
C14_SameResultOnEveryCall ==
  /\ (Returned /\ KeyOf(call, css, settings) # 0) =>
        result = firstResult[KeyOf(call, css, settings)]
  /\ (call = "convertCSS" /\ pc = "map" /\ currentLine = 0) =>
        /\ diffs = <<>>
        /\ totalConversions = 0
        /\ accessibilityIssues = 0
        /\ needsReviewCount = 0
        /\ categoryBreakdown = ZeroBreakdown
        /\ \A i \in 1..Len(errors) : IsNote(errors[i])
        /\ Len(errors) <= 1

\* The first configuration is called, then the second, then the first again.
C14_Witness ==
  /\ Returned /\ history = <<1, 2>> /\ KeyOf(call, css, settings) = 1
  /\ result.stats.totalConversions = 1
  /\ firstResult[2].stats.totalConversions = 3
  /\ result = firstResult[1]

\* C15: baseValues.fontSize is the configured basePixelSize, also when a
\* detected root font size was used for the arithmetic, and the viewport is
\* always 1920 by 1080.
C15_ConfiguredBaseReported ==
  Returned =>
     result.stats.baseValues =
        [fontSize |-> settings.basePixelSize,
         viewportWidth |-> 1920, viewportHeight |-> 1080]

C15_Witness ==
  /\ Returned /\ SupportedUnit /\ PrecisionInRange
  /\ StartsWithAt(css, 1, ":root { font-size: 20px; }\nwidth: 100px;")
  /\ settings.basePixelSize = Rat(16)
  /\ effectiveBaseSize = Rat(20)
  /\ Len(result.stats.diffs) = 2
  /\ result.stats.diffs[2].converted =
        ConvertCSSValue("100", [settings EXCEPT !.basePixelSize = Rat(20)])
  /\ result.stats.baseValues.fontSize = Rat(16)

\* C16: for every precision that is a non-negative integer, a pass with a
\* supported unit converts every match and puts nothing but the detection
\* note in errors.
C16_AnyPrecisionConverts ==
  (Returned /\ SupportedUnit) =>
     /\ \A i \in 1..Len(result.errors) : IsNote(result.errors[i])
     /\ Len(result.stats.diffs) = MatchCount(Split(css))

IsPropertyName(p) ==
  /\ Len(p) > 0
  /\ \A i \in 1..Len(p) : Ch(p, i) \in LowerSet \cup {"-"}

\* C17: the property of every diff is a lower-case CSS property name: no
\* colon, no selector text, no text of the value in front of the number.
C17_PropertyIsName ==
  Returned =>
     \A i \in 1..Len(result.stats.diffs) :
        IsPropertyName(result.stats.diffs[i].property)

\* The category the property name stands for.
NamedCategory(p) ==
  IF p \in {"width", "height", "top", "right", "bottom", "left",
            "max-width", "max-height", "min-width", "min-height"} THEN "layout"
  ELSE IF p \in {"margin", "padding", "gap", "row-gap", "column-gap",
                 "margin-top", "margin-right", "margin-bottom", "margin-left",
                 "padding-top", "padding-right", "padding-bottom", "padding-left"}
       THEN "spacing"
  ELSE IF p \in {"font-size", "line-height", "letter-spacing", "word-spacing"}
       THEN "typography"
  ELSE "other"

\* The number of diffs of category c.
CategoryCount(ds, c) == Cardinality({i \in 1..Len(ds) : ds[i].category = c})

\* C18: the category of every diff is the one its property name stands for,
\* other for every name outside the three lists, and the counter of each
\* category is the number of diffs of that category.
C18_CategoryByName ==
  Returned =>
     /\ \A i \in 1..Len(result.stats.diffs) :
          result.stats.diffs[i].category = NamedCategory(result.stats.diffs[i].property)
     /\ \A c \in Categories :
          /\ c \in DOMAIN result.stats.categoryBreakdown
          /\ result.stats.categoryBreakdown[c] = Rat(CategoryCount(result.stats.diffs, c))

\* The three checks, each taken by itself, for the diff d of the current pass.
MinIssue(d) == MinSizeCheck(d.property, OriginalValue(d))
MaxIssue(d) == MaxSizeCheck(NoIssue, d.property, OriginalValue(d), effectiveBaseSize)
TouchIssue(d) == TouchTargetCheck(NoIssue, Split(css)[d.line], d.property, OriginalValue(d))

FirstIssue(d) ==
  IF MinIssue(d).found THEN MinIssue(d)
  ELSE IF MaxIssue(d).found THEN MaxIssue(d) ELSE TouchIssue(d)

LastIssue(d) ==
  IF TouchIssue(d).found THEN TouchIssue(d)
  ELSE IF MaxIssue(d).found THEN MaxIssue(d) ELSE MinIssue(d)

\* C19 as claimed: the issue of a diff is that of the first check that
\* matches, in the order minimum size, maximum size, touch target; a diff
\* has at most one issue and adds at most one to accessibilityIssues.
C19_FirstIssueWins ==
  Returned =>
     /\ \A i \in 1..Len(result.stats.diffs) :
          LET d == result.stats.diffs[i]
          IN /\ d.impactsAccessibility = FirstIssue(d).found
             /\ d.impactsAccessibility => d.reviewReason = FirstIssue(d).reason
     /\ result.stats.accessibilityIssues <= Len(result.stats.diffs)

\* C19 amended: the issue of a diff is that of the last check that matches,
\* in the order minimum size, maximum size, touch target; a diff has at
\* most one issue and adds at most one to accessibilityIssues.
C19_LastIssueWins ==
  Returned =>
     /\ \A i \in 1..Len(result.stats.diffs) :
          LET d == result.stats.diffs[i]
          IN /\ d.impactsAccessibility = LastIssue(d).found
             /\ d.impactsAccessibility => d.reviewReason = LastIssue(d).reason
     /\ result.stats.accessibilityIssues <= Len(result.stats.diffs)

C19_Witness ==
  /\ Returned /\ settings = DefaultSettings
  /\ css = "<button style='height: 30px'>"
  /\ Len(result.stats.diffs) = 1
  /\ MinIssue(result.stats.diffs[1]).found
  /\ TouchIssue(result.stats.diffs[1]).found
  /\ MinIssue(result.stats.diffs[1]).reason # TouchIssue(result.stats.diffs[1]).reason
  /\ result.stats.diffs[1].reviewReason = TouchIssue(result.stats.diffs[1]).reason
  /\ result.stats.accessibilityIssues = 1

\* C20: when a review heuristic set a reason for the value, it is the
\* reviewReason of the diff, with or without an accessibility issue; the
\* reason of an accessibility issue is the reviewReason only when no
\* heuristic set one.
C20_ReviewReasonStays ==
  Returned =>
     \A i \in 1..Len(result.stats.diffs) :
        LET d == result.stats.diffs[i]
            r == ReviewFlags(d.property, OriginalValue(d), settings.targetUnit)
        IN IF r.reviewReason # ""
           THEN d.reviewReason = r.reviewReason
           ELSE d.impactsAccessibility => d.reviewReason = LastIssue(d).reason

\* The review heuristics of a diff, each taken by itself.
LargeFlag(d) == RatLess(Rat(1000), OriginalValue(d))
SmallFlag(d) == RatLess(OriginalValue(d), Rat(2)) /\ ~Includes(d.property, "border")
BorderFlag(d) == Includes(d.property, "border") /\ settings.targetUnit # "rem"
ViewportFlag(d) ==
  /\ settings.targetUnit \in {"vw", "vh"}
  /\ \/ Includes(d.property, "font-size")
     \/ Includes(d.property, "line-height")
     \/ Includes(d.property, "border")
SizeReason(d) == IF LargeFlag(d) THEN LargeReason ELSE SmallReason

\* C21 as claimed: for a diff whose reason no accessibility issue replaced,
\* the reviewReason is the border reason when the border heuristic matches,
\* else the viewport-unit reason when that one matches, else the size reason.
C21_BorderOverViewport ==
  Returned =>
     \A i \in 1..Len(result.stats.diffs) :
        LET d == result.stats.diffs[i]
        IN ~d.impactsAccessibility =>
             IF BorderFlag(d) THEN d.reviewReason = BorderReason
             ELSE IF ViewportFlag(d)
                  THEN d.reviewReason = ViewportReason(settings.targetUnit, d.property)
             ELSE (LargeFlag(d) \/ SmallFlag(d)) => d.reviewReason = SizeReason(d)

\* C21 amended: for a diff whose reason no accessibility issue replaced, the
\* reviewReason is the viewport-unit reason when that heuristic matches,
\* else the border reason when the border heuristic matches, else the size
\* reason.
C21_ViewportOverBorder ==
  Returned =>
     \A i \in 1..Len(result.stats.diffs) :
        LET d == result.stats.diffs[i]
        IN ~d.impactsAccessibility =>
             IF ViewportFlag(d)
             THEN d.reviewReason = ViewportReason(settings.targetUnit, d.property)
             ELSE IF BorderFlag(d) THEN d.reviewReason = BorderReason
             ELSE (LargeFlag(d) \/ SmallFlag(d)) => d.reviewReason = SizeReason(d)

C21_Witness ==
  /\ Returned /\ css = "border-width: 1001px;" /\ settings.targetUnit = "vw"
  /\ Len(result.stats.diffs) = 1
  /\ LargeFlag(result.stats.diffs[1]) /\ BorderFlag(result.stats.diffs[1])
  /\ ViewportFlag(result.stats.diffs[1])
  /\ result.stats.diffs[1].reviewReason =
        "Using vw units for border-width might cause issues at different viewport sizes"

\* C22: needsReview holds exactly when the value is above 1000, or below 2
\* with a property without `border`, or the property has `border` and the
\* unit is not rem, or the unit is vw or vh and the property has font-size,
\* line-height or border, or an accessibility issue was found; reviewReason
\* is non-empty exactly when needsReview holds.
C22_NeedsReviewExactly ==
  Returned =>
     \A i \in 1..Len(result.stats.diffs) :
        LET d == result.stats.diffs[i]
        IN /\ d.needsReview <=> \/ LargeFlag(d) \/ SmallFlag(d) \/ BorderFlag(d)
                                \/ ViewportFlag(d) \/ d.impactsAccessibility
           /\ (d.reviewReason # "") <=> d.needsReview

C22_Witness ==
  /\ Returned /\ SupportedUnit /\ PrecisionInRange
  /\ css = ".header { width: 32px; padding: 16px; }\nwidth: 1200px;"
  /\ Len(result.stats.diffs) = 3
  /\ result.stats.diffs[1].needsReview /\ result.stats.diffs[1].impactsAccessibility
  /\ ~result.stats.diffs[2].needsReview /\ result.stats.diffs[2].reviewReason = ""
  /\ result.stats.diffs[3].needsReview
  /\ result.stats.diffs[3].reviewReason = LargeReason

\* The minimum sizes in pixels.
MinimumFor(p) ==
  IF p = "font-size" THEN 12
  ELSE IF p = "line-height" THEN 18
  ELSE IF p \in {"height", "width"} THEN 44
  ELSE IF p \in {"padding", "padding-top", "padding-right", "padding-bottom",
                 "padding-left", "margin", "margin-top", "margin-right",
                 "margin-bottom", "margin-left", "gap"} THEN 8
  ELSE 0

BelowMinimum(d) == RatLess(OriginalValue(d), Rat(MinimumFor(d.property)))
LineHeightTooLarge(d) ==
  /\ d.property = "line-height"
  /\ 2 * OriginalValue(d).n * effectiveBaseSize.d
        > 5 * effectiveBaseSize.n * OriginalValue(d).d
LetterSpacingTooLarge(d) ==
  /\ d.property = "letter-spacing"
  /\ 2 * OriginalValue(d).n > OriginalValue(d).d
TouchTargetTooSmall(d) ==
  /\ IsInteractiveElement(Split(css)[d.line])
  /\ d.property \in {"height", "width"}
  /\ RatLess(OriginalValue(d), Rat(44))

\* C23: impactsAccessibility holds exactly when the value is strictly below
\* the minimum of its property, or is a line-height above 2.5 times the
\* effective base size, or a letter-spacing above 0.5px, or the touch-target
\* check matches.
C23_AccessibilityExactly ==
  Returned =>
     \A i \in 1..Len(result.stats.diffs) :
        LET d == result.stats.diffs[i]
        IN d.impactsAccessibility <=>
             \/ BelowMinimum(d) \/ LineHeightTooLarge(d)
             \/ LetterSpacingTooLarge(d) \/ TouchTargetTooSmall(d)

\* A value at its minimum raises nothing, one below it does; a line-height
\* of 45px is above 2.5 times the configured 16 but not the detected 20.
C23_Witness ==
  /\ Returned /\ SupportedUnit /\ PrecisionInRange
  /\ settings.basePixelSize = Rat(16)
  /\ css = ":root { font-size: 20px; }\nline-height: 45px;"
  /\ Len(result.stats.diffs) = 2
  /\ result.stats.diffs[2].property = "line-height"
  /\ ~result.stats.diffs[2].impactsAccessibility

\* C24: impactsResponsiveness holds exactly when the property is font-size
\* or one the category table maps to layout or spacing, and the responsive
\* list names exactly those properties.
C24_ResponsiveExactly ==
  /\ RESPONSIVE_PROPERTIES =
       {"font-size"} \cup {p \in DOMAIN PROPERTY_CATEGORIES :
                              PROPERTY_CATEGORIES[p] \in {"layout", "spacing"}}
  /\ Returned =>
       \A i \in 1..Len(result.stats.diffs) :
          LET d == result.stats.diffs[i]
          IN d.impactsResponsiveness <=>
               \/ d.property = "font-size"
               \/ /\ d.property \in DOMAIN PROPERTY_CATEGORIES
                  /\ PROPERTY_CATEGORIES[d.property] \in {"layout", "spacing"}

C24_Witness ==
  /\ Returned /\ SupportedUnit /\ PrecisionInRange
  /\ css = "letter-spacing: 0.6px; font-size: 11.5px; row-gap: 4px; line-height: 17px"
  /\ Len(result.stats.diffs) = 4
  /\ ~result.stats.diffs[1].impactsResponsiveness
  /\ result.stats.diffs[2].impactsResponsiveness
  /\ result.stats.diffs[3].impactsResponsiveness
  /\ ~result.stats.diffs[4].impactsResponsiveness

\* The original texts of the matches of a line, left to right.
MatchedTokens(line) ==
  [j \in 1..Len(AllMatches(line, 1)) |->
     MatchedValue(line, AllMatches(line, 1)[j]) \o "px"]

OriginalsOfLine(ds, k) ==
  [j \in 1..Len(DiffsOfLine(ds, k)) |-> DiffsOfLine(ds, k)[j].original]

\* C25: diffs has one record per conversion event, in scan order: its length
\* is totalConversions, every line number is between 1 and the number of
\* input lines, line numbers never decrease, and the records of a line
\* follow the left-to-right order of its tokens.
C25_DiffsInScanOrder ==
  Returned =>
     LET ds == result.stats.diffs
     IN /\ Len(ds) = result.stats.totalConversions
        /\ \A i \in 1..Len(ds) : ds[i].line \in 1..Len(Split(css))
        /\ \A i \in 1..Len(ds) : \A j \in i..Len(ds) : ds[i].line <= ds[j].line
        /\ \A k \in 1..Len(Split(css)) :
             (SupportedUnit /\ PrecisionInRange) =>
                OriginalsOfLine(ds, k) = MatchedTokens(Split(css)[k])

C25_Witness ==
  /\ Returned /\ SupportedUnit /\ PrecisionInRange
  /\ css = "width: 1200px;\n.header { width: 32px; padding: 16px; }"
  /\ Len(result.stats.diffs) = 3
  /\ result.stats.totalConversions = 3
  /\ result.stats.diffs[1].line = 1 /\ result.stats.diffs[1].original = "1200px"
  /\ result.stats.diffs[2].line = 2 /\ result.stats.diffs[2].original = "32px"
  /\ result.stats.diffs[3].line = 2 /\ result.stats.diffs[3].original = "16px"

\* C26: when the value converter returns its input (a target unit outside
\* the five supported ones), the pass creates no diff, changes no counter
\* and leaves every matched text, its px included, as it was.
C26_NoOpLeavesText ==
  (Returned /\ ~SupportedUnit) =>
     /\ result.stats.diffs = <<>>
     /\ result.stats.totalConversions = 0
     /\ result.stats.accessibilityIssues = 0
     /\ result.stats.needsReviewCount = 0
     /\ result.stats.categoryBreakdown = ZeroBreakdown
     /\ result.convertedCode = css

\* A character of a selector name.
IsWordChar(c) == IsNameChar(c) \/ IsDigit(c) \/ c \in {"_", ".", "#"}

\* The word w stands at position i of s, with no selector character around it.
WordAt(s, i, w) ==
  /\ StartsWithAt(s, i, w)
  /\ i = 1 \/ ~IsWordChar(Ch(s, i - 1))
  /\ i + Len(w) > Len(s) \/ ~IsWordChar(Ch(s, i + Len(w)))

\* The text names :root, html or body as a selector of its own.
HasRootSelector(s) ==
  \E i \in 1..Len(s) : \E w \in {":root", "html", "body"} : WordAt(ToLowerCase(s), i, w)

\* C27: when no rule of the text has :root, html or body as selector, no
\* note is emitted and every value is converted with settings.basePixelSize,
\* whatever font size other rules declare.
C27_OnlyRootRulesSetBase ==
  (Returned /\ SupportedUnit /\ PrecisionInRange /\ ~HasRootSelector(css)) =>
     /\ \A i \in 1..Len(result.errors) : ~IsNote(result.errors[i])
     /\ \A i \in 1..Len(result.stats.diffs) :
          result.stats.diffs[i].converted =
             ConvertCSSValue(SubSeq(result.stats.diffs[i].original, 1,
                                    Len(result.stats.diffs[i].original) - 2),
                             settings)

\* The line names an interactive element: one of the tags as a word of its
\* own, or one of the role attributes.
ReferencesInteractiveElement(line) ==
  \/ \E i \in 1..Len(line) :
        \E w \in {"button", "a", "input", "select", "textarea"} :
           WordAt(ToLowerCase(line), i, w)
  \/ \E r \in {"[role=\"button\"]", "[role=\"link\"]", "[role=\"menuitem\"]",
                "[role=\"tab\"]"} : Includes(ToLowerCase(line), r)

\* C28: the touch-target issue is raised only on lines that name an
\* interactive element; a height or width below 44px on any other line
\* gets the minimum-size issue.
C28_TouchTargetNeedsElement ==
  Returned =>
     \A i \in 1..Len(result.stats.diffs) :
        LET d == result.stats.diffs[i]
        IN (/\ d.property \in {"height", "width"}
            /\ RatLess(OriginalValue(d), Rat(44))
            /\ ~ReferencesInteractiveElement(Split(css)[d.line])) =>
              d.reviewReason = "Value is below minimum accessible size of 44px"

\* C29: the divisor of a pass is strictly positive; a detected root font
\* size of 0 is ignored, the configured base is used and no note is
\* emitted, and every converted value is a number followed by the unit.
C29_DivisorIsPositive ==
  /\ (call = "convertCSS" /\ pc # "start") =>
        effectiveBaseSize.n > 0 /\ effectiveBaseSize.d > 0
  /\ (Returned /\ DetectRootFontSize(css).found
        /\ DetectRootFontSize(css).size.n = 0) =>
        /\ effectiveBaseSize = settings.basePixelSize
        /\ \A i \in 1..Len(result.errors) : ~IsNote(result.errors[i])
  /\ (Returned /\ SupportedUnit) =>
        \A i \in 1..Len(result.stats.diffs) :
           IsNumberText(NumberPart(result.stats.diffs[i].converted, settings.targetUnit))

C29_Witness ==
  /\ Returned /\ SupportedUnit /\ PrecisionInRange
  /\ css = "body { font-size: 0px; }\nwidth: 100px;"
  /\ DetectRootFontSize(css).found /\ DetectRootFontSize(css).size.n = 0
  /\ result.errors = <<>>
  /\ Len(result.stats.diffs) = 2
  /\ result.stats.diffs[2].converted = ConvertCSSValue("100", settings)

\* The css the page stands for: the stylesheets in the order of their link
\* tags, then the style blocks.
DocumentOrderCSS ==
  JoinBlocks(NonEmpty([i \in 1..Len(request.links) |-> LinkText(request.links[i])]
                      \o <<Join(request.styles)>>))

NoBadHref == \A i \in 1..Len(request.links) : request.links[i].kind # "badhref"

\* C30: at most one response is sent, and exactly one when the handler is
\* done; for a page that was fetched, whatever the order in which the
\* stylesheet fetches settle, the response is the css in document order,
\* where a fetch that throws or is not OK contributes nothing, or the 404
\* answer when that css is blank.
C30_DocumentOrder ==
  /\ Len(responses) <= 1
  /\ hpc = "done" => Len(responses) = 1
  /\ (hpc = "done" /\ request.page = "ok" /\ NoBadHref) =>
        responses[1] =
           IF Trim(DocumentOrderCSS) = ""
           THEN [status |-> 404, css |-> "", error |-> "No CSS content found on the page"]
           ELSE [status |-> 200, css |-> DocumentOrderCSS, error |-> ""]

\* The stylesheet of the second link tag arrives before that of the first.
C30_Witness ==
  /\ hpc = "done"
  /\ request.links = <<[kind |-> "ok", text |-> "a{}"], [kind |-> "ok", text |-> "b{}"]>>
  /\ request.styles = <<"i{}", "j{}">>
  /\ completionOrder = <<2, 1>>
  /\ responses = <<[status |-> 200, css |-> "a{}\n\nb{}\n\ni{}\nj{}", error |-> ""]>>

====
